---- MODULE Spec2Model ----
(***************************************************************************)
(* RSA with OAEP padding (cipher/rsa.py): key generation, OAEP encoding    *)
(* and decoding, and the block driver encrypt / decrypt.                   *)
(*                                                                         *)
(* Scale.  The code works on octets, SHA-256 digests of 32 octets and      *)
(* moduli of hundreds of bits.  The model keeps every formula of the code  *)
(* but runs it at a reduced scale: a "byte" has ByteBits bits, the digest  *)
(* has HLen bytes, and the hash is a fixed deterministic function Hash     *)
(* from byte strings to HLen-byte digests.  Where the code writes 8 (bits  *)
(* per byte) the model writes ByteBits, where it writes 256 the model      *)
(* writes ByteBase, and h_len is HLen.  Everything else (e = 65537, the    *)
(* 4-byte header, the 4-byte MGF1 counter, the 5 Miller-Rabin rounds) is   *)
(* as in the code.  Randomness (os.urandom) is a nondeterministic choice   *)
(* of the bytes drawn.  One specification, SpecKeygenSmallExponent, runs   *)
(* generate_keypair with e = SmallExponent, so that e can divide phi for   *)
(* the small primes of the model.  SpecGcd calls _extended_gcd directly   *)
(* and counts its nested calls against RecursionLimit, the interpreter's   *)
(* limit at the model's scale.  FairGeneratePrime and FairKeygen state    *)
(* the fairness of the random source for the termination properties.       *)
(***************************************************************************)
EXTENDS Integers, Sequences, FiniteSets, TLC

\* ------------------------------------------------------------------ scale
ByteBits == 2
HLen == 1
\* generate_keypair is called with the even bit sizes 2*h, h in 1..MaxHalfBits
MaxHalfBits == 6
\* messages handed to encrypt: at most MaxMsgLen bytes, each in 0..MaxMsgByte
MaxMsgLen == 3
MaxMsgByte == 1
\* messages encrypted twice or corrupted: at most MaxPairMsgLen bytes
MaxPairMsgLen == 2
\* messages decrypted with another keypair's key: at most MaxWrongKeyMsgLen bytes
MaxWrongKeyMsgLen == 1
\* byte strings handed to decrypt directly: at most MaxCtLen bytes
MaxCtLen == 10
\* the public exponent at the scale of the model's primes.  With primes below
\* 2^MaxHalfBits, phi is below 65537 and gcd(65537, phi) = 1 in every run, so
\* the branch of generate_keypair in which _mod_inverse raises is exercised
\* with e = SmallExponent
SmallExponent == 5
\* direct calls of _oaep_encode and _oaep_decode: k in 0 .. MaxK (and, for
\* _oaep_encode, the smallest k whose mask is too long), labels of at most
\* MaxLabelLen bytes, messages of at most MaxBlockMsgLen bytes, byte strings
\* to decode of at most MaxEncodedLen bytes
MaxK == 7
MaxLabelLen == 1
MaxBlockMsgLen == 3
MaxEncodedLen == 5
\* direct calls of _mgf1: seeds of at most MaxSeedLen bytes, lengths in
\* 0 .. MaxMaskLen (and the smallest length that is too long), hash functions
\* with digests of 1 .. MaxDigestLen bytes
MaxSeedLen == 2
MaxMaskLen == 5
MaxDigestLen == 3
\* direct calls of _is_prime: arguments up to MaxPrimalityArg (and the
\* composites the specification names), round counts 0 .. MaxRoundsArg
MaxPrimalityArg == 130
MaxRoundsArg == 3
\* direct calls of _generate_prime: bit sizes 1 .. MaxPrimeBits
MaxPrimeBits == 6
\* the runs under a fair random source: primes of at most MaxFairPrimeBits bits
MaxFairPrimeBits == 4
\* direct calls of _extended_gcd and _mod_inverse: arguments 0 .. MaxGcdArg
\* (and the public exponent), moduli 1 .. MaxInverseModulus; the interpreter
\* allows RecursionLimit nested calls (1000 by default), scaled here as the
\* arguments are: above the depth a call with the public exponent reaches,
\* below the depth two arguments of full size reach
MaxGcdArg == 14
MaxInverseModulus == 14
RecursionLimit == 6

\* ------------------------------------------------------- program constants
PublicExponent == 65537
HeaderLen == 4
CounterLen == 4
Rounds == 5

RECURSIVE Pow(_, _)
Pow(b, x) == IF x = 0 THEN 1 ELSE b * Pow(b, x - 1)

ByteBase == Pow(2, ByteBits)
Byte == 0 .. (ByteBase - 1)

\* ------------------------------------------------------------ byte strings
\* int.bit_length()
RECURSIVE BitLength(_)
BitLength(n) == IF n = 0 THEN 0 ELSE 1 + BitLength(n \div 2)

\* int.from_bytes(s, 'big')
RECURSIVE FromBytes(_)
FromBytes(s) ==
    IF Len(s) = 0 THEN 0
    ELSE FromBytes(SubSeq(s, 1, Len(s) - 1)) * ByteBase + s[Len(s)]

\* the digits of v.to_bytes(len, 'big') when v fits
RECURSIVE Digits(_, _)
Digits(v, len) ==
    IF len = 0 THEN <<>>
    ELSE Append(Digits(v \div ByteBase, len - 1), v % ByteBase)

\* v.to_bytes(len, 'big') raises OverflowError when v does not fit in len bytes
Fits(v, len) == v >= 0 /\ v < Pow(ByteBase, len)

\* bytes slicing s[from:to] with 0-based, end-exclusive, clipped indices
Slice(s, from, to) ==
    LET hi == IF to > Len(s) THEN Len(s) ELSE to
    IN  IF from >= hi THEN <<>> ELSE SubSeq(s, from + 1, hi)

\* a padding string one byte short
ZerosOneShort(cnt) == [i \in 1 .. (cnt - 1) |-> 0]

\* b'\x00' * cnt
Zeros(cnt) == [i \in 1 .. cnt |-> 0]

\* x ^ y on two bytes
RECURSIVE XorInt(_, _)
XorInt(x, y) ==
    IF x = 0 THEN y
    ELSE IF y = 0 THEN x
    ELSE (((x % 2) + (y % 2)) % 2) + 2 * XorInt(x \div 2, y \div 2)

\* x | y on two non-negative integers
RECURSIVE OrInt(_, _)
OrInt(x, y) ==
    IF x = 0 THEN y
    ELSE IF y = 0 THEN x
    ELSE (IF x % 2 = 1 \/ y % 2 = 1 THEN 1 ELSE 0) + 2 * OrInt(x \div 2, y \div 2)

\* b''.join(parts)
RECURSIVE Concat(_)
Concat(parts) ==
    IF Len(parts) = 0 THEN <<>>
    ELSE Concat(SubSeq(parts, 1, Len(parts) - 1)) \o parts[Len(parts)]

\* the bytes combined with | instead of ^
OrBytes(a, b) ==
    LET len == IF Len(a) < Len(b) THEN Len(a) ELSE Len(b)
    IN  [i \in 1 .. len |-> OrInt(a[i], b[i])]

\* _xor_bytes: zip stops at the shorter argument
XorBytes(a, b) ==
    LET len == IF Len(a) < Len(b) THEN Len(a) ELSE Len(b)
    IN  [i \in 1 .. len |-> XorInt(a[i], b[i])]

\* hash_func(data).digest(): a fixed function of data with HLen bytes of output
RECURSIVE HashAcc(_)
HashAcc(s) ==
    IF Len(s) = 0 THEN 11
    ELSE (7 * HashAcc(SubSeq(s, 1, Len(s) - 1)) + s[Len(s)] + 3) % 251

\* hash_func(data).digest() for a hash_func of digest size h_len
HashWith(s, h_len) == Digits(HashAcc(s) % Pow(ByteBase, h_len), h_len)

\* hashlib.sha256(data).digest()
Hash(s) == HashWith(s, HLen)

\* pow(b, x, n) for x >= 0 and n >= 1
RECURSIVE ModExp(_, _, _)
ModExp(b, x, n) ==
    IF x = 0 THEN 1 % n
    ELSE LET h == ModExp(b, x \div 2, n)
             sq == (h * h) % n
         IN  IF x % 2 = 1 THEN (sq * (b % n)) % n ELSE sq

\* results of a call: a value returned, or an exception raised
Ok(v) == [tag |-> "ok", val |-> v, why |-> ""]
Raise(kind, why) == [tag |-> kind, val |-> <<>>, why |-> why]

\* ------------------------------------------------------------------- MGF1
\* the while loop of _mgf1: T grows by one digest per counter value
RECURSIVE Mgf1Loop(_, _, _, _, _)
Mgf1Loop(seed, length, T, counter, h_len) ==
    IF Len(T) < length
    THEN Mgf1Loop(seed, length,
                  T \o HashWith(seed \o Digits(counter, CounterLen), h_len),
                  counter + 1, h_len)
    ELSE T

\* the largest mask of _mgf1: 2**32 * h_len
MaskLimit(h_len) == Pow(ByteBase, CounterLen) * h_len

\* _mgf1 raises ValueError("Mask too long") when length > 2**32 * h_len
Mgf1TooLongFor(length, h_len) == length > MaskLimit(h_len)

\* _mgf1 without the slice T[:length]
Mgf1CallUntruncated(seed, length, h_len) ==
    IF Mgf1TooLongFor(length, h_len)
    THEN Raise("ValueError", "Mask too long")
    ELSE Ok(Mgf1Loop(seed, length, <<>>, 0, h_len))

\* _mgf1(seed, length, hash_func) for a hash_func of digest size h_len
Mgf1Call(seed, length, h_len) ==
    IF Mgf1TooLongFor(length, h_len)
    THEN Raise("ValueError", "Mask too long")
    ELSE Ok(Slice(Mgf1Loop(seed, length, <<>>, 0, h_len), 0, length))

\* _mgf1 with the default hash_func: whether it raises, and what it returns
Mgf1TooLong(length) == Mgf1TooLongFor(length, HLen)

Mgf1(seed, length) == Mgf1Call(seed, length, HLen).val

\* ------------------------------------------------------------------- OAEP
\* the length test of _oaep_encode refusing a message that fills the block
TooLongForBlockOffByOne(message, k) == Len(message) >= k - 2 * HLen - 2

\* the test  len(message) > max_msg_len  of _oaep_encode
TooLongForBlock(message, k) == Len(message) > k - 2 * HLen - 2

\* _oaep_encode(message, k, label) with the seed os.urandom(h_len) returned
OaepEncode(message, k, label, seed) ==
    IF TooLongForBlock(message, k)
    THEN Raise("ValueError", "Message too long for OAEP encoding")
    ELSE IF Mgf1TooLong(k - HLen - 1)
    THEN Raise("ValueError", "Mask too long")
    ELSE LET l_hash == Hash(label)
             ps_len == k - Len(message) - 2 * HLen - 2
             ps == Zeros(ps_len)
             db == l_hash \o ps \o <<1>> \o message
             db_mask == Mgf1(seed, k - HLen - 1)
             masked_db == XorBytes(db, db_mask)
             seed_mask == Mgf1(masked_db, HLen)
             masked_seed == XorBytes(seed, seed_mask)
         IN  Ok(<<0>> \o masked_seed \o masked_db)

\* the separator loop passing over bytes other than 0x00 and 0x01
RECURSIVE FindSeparatorSkipping(_, _)
FindSeparatorSkipping(db, i) ==
    IF i >= Len(db) THEN -1
    ELSE IF db[i + 1] = 1 THEN i
    ELSE FindSeparatorSkipping(db, i + 1)

\* the separator loop of _oaep_decode over the 0-based indices i .. len(db)-1:
\* the index of the first 0x01, -1 when the loop ends without one, -2 when a
\* byte other than 0x00 and 0x01 comes first (the loop raises)
RECURSIVE FindSeparator(_, _)
FindSeparator(db, i) ==
    IF i >= Len(db) THEN -1
    ELSE IF db[i + 1] = 1 THEN i
    ELSE IF db[i + 1] # 0 THEN -2
    ELSE FindSeparator(db, i + 1)

\* the length test of _oaep_decode without the length of the argument
BadEncodedLengthMinimumOnly(encoded, k) == k < 2 * HLen + 2

\* the test  len(encoded) != k or k < 2 * h_len + 2  of _oaep_decode
BadEncodedLength(encoded, k) == Len(encoded) # k \/ k < 2 * HLen + 2

\* the label test comparing nothing
LabelHashMismatchIgnored(l_hash, l_hash_prime) == FALSE

\* the test  l_hash != l_hash_prime  of _oaep_decode
LabelHashMismatch(l_hash, l_hash_prime) == l_hash # l_hash_prime

\* the checks on the unmasked block with the leading byte tested first
DecodeChecksLeadingByteFirst(y, l_hash, db) ==
    LET l_hash_prime == Slice(db, 0, HLen)
        separator_index == FindSeparator(db, HLen)
    IN  IF y # 0
        THEN Raise("ValueError", "Decoding error: invalid first byte")
        ELSE IF LabelHashMismatch(l_hash, l_hash_prime)
        THEN Raise("ValueError", "Decoding error: label hash mismatch")
        ELSE IF separator_index = -2
        THEN Raise("ValueError", "Decoding error: invalid padding")
        ELSE IF separator_index = -1
        THEN Raise("ValueError", "Decoding error: no 0x01 separator found")
        ELSE Ok(Slice(db, separator_index + 1, Len(db)))

\* the checks of _oaep_decode on the unmasked block DB and the leading byte y,
\* in the order of the code: label hash, separator loop, leading byte
DecodeChecks(y, l_hash, db) ==
    LET l_hash_prime == Slice(db, 0, HLen)
        separator_index == FindSeparator(db, HLen)
    IN  IF LabelHashMismatch(l_hash, l_hash_prime)
        THEN Raise("ValueError", "Decoding error: label hash mismatch")
        ELSE IF separator_index = -2
        THEN Raise("ValueError", "Decoding error: invalid padding")
        ELSE IF separator_index = -1
        THEN Raise("ValueError", "Decoding error: no 0x01 separator found")
        ELSE IF y # 0
        THEN Raise("ValueError", "Decoding error: invalid first byte")
        ELSE Ok(Slice(db, separator_index + 1, Len(db)))

\* _oaep_decode(encoded, k, label)
OaepDecode(encoded, k, label) ==
    IF BadEncodedLength(encoded, k)
    THEN Raise("ValueError", "Decoding error: invalid encoded message length")
    ELSE IF Mgf1TooLong(k - HLen - 1)
    THEN Raise("ValueError", "Mask too long")
    ELSE LET y == encoded[1]
             masked_seed == Slice(encoded, 1, HLen + 1)
             masked_db == Slice(encoded, HLen + 1, Len(encoded))
             seed_mask == Mgf1(masked_db, HLen)
             seed == XorBytes(masked_seed, seed_mask)
             db_mask == Mgf1(seed, k - HLen - 1)
             db == XorBytes(masked_db, db_mask)
             l_hash == Hash(label)
         IN  DecodeChecks(y, l_hash, db)

\* ------------------------------------------------------------ block driver
\* k rounded down:  n.bit_length() // 8
ModulusBytesRoundedDown(n) == BitLength(n) \div ByteBits

\* k = (n.bit_length() + 7) // 8
ModulusBytes(n) == (BitLength(n) + ByteBits - 1) \div ByteBits

\* max_block_size = k - 2 * h_len - 2
MaxBlockSize(k) == k - 2 * HLen - 2

\* the start offsets range(0, len, step) for step > 0
RangeStarts(len, step) == {i \in 0 .. (len - 1) : i % step = 0}

\* blocks: [message[i:i + step] for i in range(0, len(message), step)];
\* a negative step gives an empty range, a zero step is raised before
SplitBlocks(message, step) ==
    IF step <= 0 THEN <<>>
    ELSE [j \in 1 .. Cardinality(RangeStarts(Len(message), step)) |->
             Slice(message, (j - 1) * step, (j - 1) * step + step)]

\* one iteration of the encryption loop: OAEP encode, m^e mod n, to_bytes(k)
EncryptBlock(block, e, n, k, seed) ==
    LET em == OaepEncode(block, k, <<>>, seed)
    IN  IF em.tag # "ok" THEN em
        ELSE IF n = 0
        THEN Raise("ValueError", "pow() 3rd argument cannot be 0")
        ELSE LET m == FromBytes(em.val)
                 c == ModExp(m, e, n)
             IN  IF ~Fits(c, k)
                 THEN Raise("OverflowError", "int too big to convert")
                 ELSE Ok(c)

\* b''.join of the k-byte blocks
RECURSIVE JoinBlocks(_, _)
JoinBlocks(cs, k) ==
    IF Len(cs) = 0 THEN <<>>
    ELSE JoinBlocks(SubSeq(cs, 1, Len(cs) - 1), k) \o Digits(cs[Len(cs)], k)

\* the first exception of a sequence of results, in order
FirstError(rs) ==
    LET bad == {i \in 1 .. Len(rs) : rs[i].tag # "ok"}
    IN  rs[CHOOSE i \in bad : \A j \in bad : i <= j]

\* encrypt without its test for the empty message
MessageEmptyDropped(message) == FALSE

\* the test  len(message) == 0  of encrypt
MessageEmpty(message) == Len(message) = 0

\* encrypt(message, public_key); seeds[i] is the seed drawn for block i
Encrypt(message, public_key, seeds) ==
    LET e == public_key[1]
        n == public_key[2]
        k == ModulusBytes(n)
        max_block_size == MaxBlockSize(k)
    IN  IF MessageEmpty(message)
        THEN Raise("ValueError", "Message cannot be empty")
        ELSE IF max_block_size = 0
        THEN Raise("ValueError", "range() arg 3 must not be zero")
        ELSE LET blocks == SplitBlocks(message, max_block_size)
                 rs == [i \in 1 .. Len(blocks) |->
                           EncryptBlock(blocks[i], e, n, k, seeds[i])]
             IN  IF \E i \in 1 .. Len(rs) : rs[i].tag # "ok"
                 THEN FirstError(rs)
                 ELSE IF ~Fits(Len(rs), HeaderLen)
                 THEN Raise("OverflowError", "int too big to convert")
                 ELSE Ok(Digits(Len(rs), HeaderLen)
                         \o JoinBlocks([i \in 1 .. Len(rs) |-> rs[i].val], k))

\* the number of seeds encrypt draws for a message: one per block
NumBlocks(message, public_key) ==
    Len(SplitBlocks(message, MaxBlockSize(ModulusBytes(public_key[2]))))

\* the decryption loop converting m to k-1 bytes instead of k
DecryptBlockOneByteLess(c_bytes, d, n, k) ==
    IF n = 0
    THEN Raise("ValueError", "pow() 3rd argument cannot be 0")
    ELSE LET c == FromBytes(c_bytes)
             m == ModExp(c, d, n)
         IN  IF ~Fits(m, k - 1)
             THEN Raise("OverflowError", "int too big to convert")
             ELSE OaepDecode(Digits(m, k - 1), k, <<>>)

\* one iteration of the decryption loop: c^d mod n, to_bytes(k), OAEP decode
DecryptBlock(c_bytes, d, n, k) ==
    IF n = 0
    THEN Raise("ValueError", "pow() 3rd argument cannot be 0")
    ELSE LET c == FromBytes(c_bytes)
             m == ModExp(c, d, n)
         IN  IF ~Fits(m, k)
             THEN Raise("OverflowError", "int too big to convert")
             ELSE OaepDecode(Digits(m, k), k, <<>>)

\* the header test letting a 3-byte ciphertext through
TooShortOffByOne(ciphertext) == Len(ciphertext) < HeaderLen - 1

\* the test  len(ciphertext) < 4  of decrypt
TooShort(ciphertext) == Len(ciphertext) < HeaderLen

\* the length test accepting a body longer than the header announces
LengthMismatchShortOnly(body, num_blocks, k) == Len(body) < num_blocks * k

\* the test  len(ciphertext) != num_blocks * k  of decrypt, after the header
\* is cut off
LengthMismatch(body, num_blocks, k) == Len(body) # num_blocks * k

\* the block loop handing back the chunks decoded before a block that raises
DecryptLoopPartial(rs, num_blocks) ==
    LET bad == {i \in 1 .. num_blocks : rs[i].tag # "ok"}
        stop == IF bad = {} THEN num_blocks
                ELSE (CHOOSE i \in bad : \A j \in bad : i <= j) - 1
        decoded == [i \in 1 .. stop |-> rs[i].val]
    IN  [res |-> Ok(Concat(decoded)),
         decoded |-> decoded,
         tried |-> IF bad = {} THEN num_blocks ELSE stop + 1]

\* the block loop of decrypt and its return, rs[i] being what iteration i
\* yields: the loop ends at the first block that raises
DecryptLoop(rs, num_blocks) ==
    LET bad == {i \in 1 .. num_blocks : rs[i].tag # "ok"}
        stop == IF bad = {} THEN num_blocks
                ELSE (CHOOSE i \in bad : \A j \in bad : i <= j) - 1
        decoded == [i \in 1 .. stop |-> rs[i].val]
    IN  [res |-> IF bad = {} THEN Ok(Concat(decoded)) ELSE rs[stop + 1],
         decoded |-> decoded,
         tried |-> IF bad = {} THEN num_blocks ELSE stop + 1]

\* decrypt(ciphertext, private_key): res is what it returns or raises, decoded
\* the list decrypted_blocks at that point, and tried the number of iterations
\* of the block loop that were started
DecryptRun(ciphertext, private_key) ==
    LET d == private_key[1]
        n == private_key[2]
        k == ModulusBytes(n)
    IN  IF TooShort(ciphertext)
        THEN [res |-> Raise("ValueError", "Invalid ciphertext: too short"),
              decoded |-> <<>>, tried |-> 0]
        ELSE LET num_blocks == FromBytes(Slice(ciphertext, 0, HeaderLen))
                 body == Slice(ciphertext, HeaderLen, Len(ciphertext))
             IN  IF LengthMismatch(body, num_blocks, k)
                 THEN [res |-> Raise("ValueError",
                                     "Invalid ciphertext: incorrect length"),
                       decoded |-> <<>>, tried |-> 0]
                 ELSE DecryptLoop([i \in 1 .. num_blocks |->
                                      DecryptBlock(Slice(body, (i - 1) * k, i * k),
                                                   d, n, k)],
                                  num_blocks)

Decrypt(ciphertext, private_key) == DecryptRun(ciphertext, private_key).res

\* ---------------------------------------------------------- Miller-Rabin
\* "write n-1 as 2^r * d": the loop  while d % 2 == 0: r += 1; d //= 2
RECURSIVE OddPart(_)
OddPart(d) == IF d % 2 = 0 THEN OddPart(d \div 2) ELSE d

RECURSIVE TwoExponent(_)
TwoExponent(d) == IF d % 2 = 0 THEN 1 + TwoExponent(d \div 2) ELSE 0

\* a = 2 + os.urandom(1)[0] % (n - 3), byte being the byte drawn
WitnessBase(n, byte) == 2 + (byte % (n - 3))

\* the values a can take in one round: one for each byte os.urandom(1) can
\* return
PossibleBases(n) == {WitnessBase(n, byte) : byte \in Byte}

\* the inner loop  for _ in range(r - 1): x = pow(x, 2, n); if x == n-1: break
\* TRUE when it breaks, FALSE when it runs out (the else branch: composite)
RECURSIVE SquareLoop(_, _, _)
SquareLoop(x, cnt, n) ==
    IF cnt <= 0 THEN FALSE
    ELSE LET x2 == ModExp(x, 2, n)
         IN  IF x2 = n - 1 THEN TRUE ELSE SquareLoop(x2, cnt - 1, n)

\* the round without the test  x == n - 1  before the squaring loop
RoundPassesOnlyOne(n, a) ==
    LET d == OddPart(n - 1)
        r == TwoExponent(n - 1)
        x == ModExp(a, d, n)
    IN  IF x = 1 THEN TRUE ELSE SquareLoop(x, r - 1, n)

\* one iteration of the witness loop of _is_prime(n) for odd n >= 5 with base
\* a: TRUE when the round passes (continue), FALSE when it returns False
RoundPasses(n, a) ==
    LET d == OddPart(n - 1)
        r == TwoExponent(n - 1)
        x == ModExp(a, d, n)
    IN  IF x = 1 \/ x = n - 1 THEN TRUE ELSE SquareLoop(x, r - 1, n)

\* the shortcuts of _is_prime before the witness loop
PreCheck(n) ==
    IF n < 2 THEN "false"
    ELSE IF n = 2 \/ n = 3 THEN "true"
    ELSE IF n % 2 = 0 THEN "false"
    ELSE "rounds"

\* the witness loop returning False only when its last round fails
RECURSIVE WitnessLoopLastRound(_, _, _, _)
WitnessLoopLastRound(n, k, bytes, i) ==
    IF i > k THEN TRUE
    ELSE IF RoundPasses(n, WitnessBase(n, bytes[i])) \/ i < k
    THEN WitnessLoopLastRound(n, k, bytes, i + 1)
    ELSE FALSE

\* _is_prime(n, k) with bytes[i] the byte os.urandom(1) returns in round i
RECURSIVE WitnessLoop(_, _, _, _)
WitnessLoop(n, k, bytes, i) ==
    IF i > k THEN TRUE
    ELSE IF RoundPasses(n, WitnessBase(n, bytes[i]))
    THEN WitnessLoop(n, k, bytes, i + 1)
    ELSE FALSE

IsPrime(n, k, bytes) ==
    IF PreCheck(n) = "rounds" THEN WitnessLoop(n, k, bytes, 1)
    ELSE PreCheck(n) = "true"

\* ------------------------------------------------------- prime generation
\* the bytes os.urandom(bit_size // 8) can return
RandomBytes(cnt) == [1 .. cnt -> Byte]

\* the candidate with the top bit set and the low bit left as drawn
CandidateLowBitFree(bit_size, rnd) ==
    OrInt(FromBytes(rnd), Pow(2, bit_size - 1))

\* the candidate with the low bit set and the top bit left as drawn
CandidateTopBitFree(bit_size, rnd) == OrInt(FromBytes(rnd), 1)

\* num = int.from_bytes(os.urandom(bit_size // 8)) | (1 << (bit_size - 1)) | 1
Candidate(bit_size, rnd) ==
    OrInt(FromBytes(rnd), OrInt(Pow(2, bit_size - 1), 1))

\* ------------------------------------------------------- modular inverse
\* _extended_gcd(a, b) = <<gcd, x, y>>
RECURSIVE ExtendedGcd(_, _)
ExtendedGcd(a, b) ==
    IF a = 0 THEN <<b, 0, 1>>
    ELSE LET t == ExtendedGcd(b % a, a)
         IN  <<t[1], t[3] - (b \div a) * t[2], t[2]>>

\* _mod_inverse taking the coefficient of m for the one of a
ModInverseOtherCoefficient(a, m) ==
    LET t == ExtendedGcd(a, m)
    IN  IF t[1] # 1 THEN Raise("ValueError", "Modular inverse does not exist")
        ELSE Ok(((t[3] % m) + m) % m)

\* _mod_inverse without its test of the gcd
ModInverseUnchecked(a, m) ==
    LET t == ExtendedGcd(a, m)
    IN  Ok(((t[2] % m) + m) % m)

\* _mod_inverse(a, m)
ModInverse(a, m) ==
    LET t == ExtendedGcd(a, m)
    IN  IF t[1] # 1 THEN Raise("ValueError", "Modular inverse does not exist")
        ELSE Ok(((t[2] % m) + m) % m)

\* the two exponents returned in each other's place
MakeKeypairSwapped(e, d, n) == <<<<d, n>>, <<e, n>>>>

\* return ((e, n), (d, n))
MakeKeypair(e, d, n) == <<<<e, n>>, <<d, n>>>>

\* ------------------------------------------------------------------ state
NoResult == [tag |-> "none", val |-> <<>>, why |-> ""]
NoKey == <<0, 0>>
NoRun == [res |-> NoResult, decoded |-> <<>>, tried |-> 0]
NoPair == <<NoKey, NoKey>>
NoTamper == [kind |-> "none", pos |-> 0, bit |-> 0]
NoEncode == [message |-> <<>>, k |-> 0, label |-> <<>>, seed |-> <<>>,
             res |-> NoResult]
NoDecode == [encoded |-> <<>>, k |-> 0, label |-> <<>>, res |-> NoResult]
NoMask == [seed |-> <<>>, length |-> 0, h_len |-> 0, res |-> NoResult]

\* no _is_prime call made yet
NoVerdict == [n |-> 0, k |-> 0, bytes |-> <<>>, res |-> "none"]
\* no _generate_prime call made yet
NoPrime == [bit_size |-> 0, num |-> 0, bytes |-> <<>>, res |-> 0]
\* no _extended_gcd call made yet
NoGcd == [a |-> 0, b |-> 0, res |-> NoResult]
\* no _mod_inverse call made yet
NoInverse == [a |-> 0, m |-> 0, res |-> NoResult]

\* the messages handed to encrypt (the empty one included)
Messages == UNION {[1 .. len -> 0 .. MaxMsgByte] : len \in 0 .. MaxMsgLen}

VARIABLES
    pc,        \* where the caller is: start, gen, witness, ready, failed, ...
    bit_size,  \* the argument of generate_keypair
    target,    \* "p" or "q": which _generate_prime call is running
    num,       \* the candidate under test in _is_prime
    rounds,    \* witness rounds the candidate has passed
    p, q,      \* the primes of generate_keypair
    e,         \* the public exponent of generate_keypair
    pub, priv, \* the keypair returned: (e, n) and (d, n)
    keygen,    \* what generate_keypair returned or raised
    message,   \* the argument of encrypt
    seeds,     \* the OAEP seeds encrypt drew, one per block
    ct,        \* what encrypt returned or raised
    cin, dkey, \* the arguments of decrypt
    out,       \* what decrypt returned or raised, with its decrypted_blocks
    first,     \* the keypair of an earlier generate_keypair call
    seeds2,    \* the seeds a second encrypt of the same message drew
    ct2,       \* what the second encrypt returned or raised
    out2,      \* what decrypt of the second ciphertext returned or raised
    tamper,    \* the corruption applied to the ciphertext before decrypt
    enc,       \* a direct call of _oaep_encode: arguments, seed drawn, result
    dec,       \* a direct call of _oaep_decode: arguments and result
    mgf,       \* a direct call of _mgf1: arguments and result
    mgf2,      \* a second call of _mgf1 with the same seed
    isp,       \* a direct call of _is_prime: arguments, bytes drawn, verdict
    gp,        \* a direct call of _generate_prime: argument, candidate, result
    eg,        \* a direct call of _extended_gcd: arguments and result
    mi         \* a direct call of _mod_inverse: arguments and result

vars == <<pc, bit_size, target, num, rounds, p, q, e, pub, priv, keygen,
          message, seeds, ct, cin, dkey, out, first, seeds2, ct2, out2, tamper,
          enc, dec, mgf, mgf2, isp, gp, eg, mi>>

keyVars == <<bit_size, target, num, rounds, p, q, e, pub, priv, keygen>>
cipherVars == <<message, seeds, ct, cin, dkey, out>>
otherVars == <<first, seeds2, ct2, out2, tamper>>
fnVars == <<enc, dec, mgf, mgf2>>
mathVars == <<isp, gp, eg, mi>>

Init ==
    /\ pc = "start"
    /\ bit_size = 0
    /\ target = "p"
    /\ num = 0
    /\ rounds = 0
    /\ p = 0
    /\ q = 0
    /\ e = 0
    /\ pub = NoKey
    /\ priv = NoKey
    /\ keygen = NoResult
    /\ message = <<>>
    /\ seeds = <<>>
    /\ ct = NoResult
    /\ cin = <<>>
    /\ dkey = NoKey
    /\ out = NoRun
    /\ first = NoPair
    /\ seeds2 = <<>>
    /\ ct2 = NoResult
    /\ out2 = NoRun
    /\ tamper = NoTamper
    /\ enc = NoEncode
    /\ dec = NoDecode
    /\ mgf = NoMask
    /\ mgf2 = NoMask
    /\ isp = NoVerdict
    /\ gp = NoPrime
    /\ eg = NoGcd
    /\ mi = NoInverse

\* --------------------------------------------------------- generate_keypair
\* the caller invokes generate_keypair(bit_size); p = _generate_prime(...) starts
CallGenerateKeypair ==
    /\ pc = "start"
    /\ \E h \in 1 .. MaxHalfBits : bit_size' = 2 * h
    /\ pc' = "gen"
    /\ target' = "p"
    /\ e' = PublicExponent
    /\ UNCHANGED <<num, rounds, p, q, pub, priv, keygen>>
    /\ UNCHANGED cipherVars
    /\ UNCHANGED otherVars
    /\ UNCHANGED fnVars
    /\ UNCHANGED mathVars

\* _generate_prime returns prime to generate_keypair, which goes on: p is
\* assigned and the call for q starts; q is assigned, the loop  while p == q
\* calls _generate_prime again, and otherwise n, phi, e, d are computed and
\* the keypair is returned (or _mod_inverse raises)
PrimeReturned(prime) ==
    IF target = "p"
    THEN /\ p' = prime
         /\ target' = "q"
         /\ pc' = "gen"
         /\ UNCHANGED <<q, pub, priv, keygen>>
    ELSE IF p = prime
    THEN /\ q' = prime
         /\ pc' = "gen"
         /\ UNCHANGED <<p, target, pub, priv, keygen>>
    ELSE LET n == p * prime
             phi == (p - 1) * (prime - 1)
             d == ModInverse(e, phi)
         IN  /\ q' = prime
             /\ UNCHANGED <<p, target>>
             /\ IF d.tag = "ok"
                THEN /\ pub' = MakeKeypair(e, d.val, n)[1]
                     /\ priv' = MakeKeypair(e, d.val, n)[2]
                     /\ keygen' = Ok(MakeKeypair(e, d.val, n))
                     /\ pc' = "ready"
                ELSE /\ keygen' = d
                     /\ pc' = "failed"
                     /\ UNCHANGED <<pub, priv>>

\* one iteration of the loop of _generate_prime up to the witness loop of
\* _is_prime: draw the bytes, set the top and the low bit, take the shortcuts
DrawCandidate ==
    /\ pc = "gen"
    /\ \E rnd \in RandomBytes((bit_size \div 2) \div ByteBits) :
          LET cand == Candidate(bit_size \div 2, rnd)
              pre == PreCheck(cand)
          IN  IF pre = "rounds"
              THEN /\ num' = cand
                   /\ rounds' = 0
                   /\ pc' = "witness"
                   /\ UNCHANGED <<target, p, q, pub, priv, keygen>>
              ELSE IF pre = "true"
              THEN /\ PrimeReturned(cand)
                   /\ UNCHANGED <<num, rounds>>
              ELSE UNCHANGED <<pc, target, num, rounds, p, q, pub, priv, keygen>>
    /\ UNCHANGED <<bit_size, e>>
    /\ UNCHANGED cipherVars
    /\ UNCHANGED otherVars
    /\ UNCHANGED fnVars
    /\ UNCHANGED mathVars

\* one iteration of the witness loop of _is_prime(num): the last passing round
\* returns True and _generate_prime returns num; a failing round returns False
\* and _generate_prime draws again
WitnessRound ==
    /\ pc = "witness"
    /\ \E byte \in Byte :
          IF RoundPasses(num, WitnessBase(num, byte))
          THEN IF rounds + 1 = Rounds
               THEN /\ PrimeReturned(num)
                    /\ rounds' = rounds + 1
                    /\ UNCHANGED num
               ELSE /\ rounds' = rounds + 1
                    /\ UNCHANGED <<pc, target, num, p, q, pub, priv, keygen>>
          ELSE /\ pc' = "gen"
               /\ UNCHANGED <<target, num, rounds, p, q, pub, priv, keygen>>
    /\ UNCHANGED <<bit_size, e>>
    /\ UNCHANGED cipherVars
    /\ UNCHANGED otherVars
    /\ UNCHANGED fnVars
    /\ UNCHANGED mathVars

\* ----------------------------------------------------- encrypt and decrypt
\* the seeds os.urandom(h_len) can return, one per block
SeedChoices(cnt) == [1 .. cnt -> [1 .. HLen -> Byte]]

\* the caller invokes encrypt(message, public_key) with the generated key
CallEncrypt ==
    /\ pc = "ready"
    /\ \E m \in Messages :
          \E sd \in SeedChoices(NumBlocks(m, pub)) :
             /\ message' = m
             /\ seeds' = sd
             /\ ct' = Encrypt(m, pub, sd)
    /\ pc' = "encrypted"
    /\ UNCHANGED <<cin, dkey, out>>
    /\ UNCHANGED keyVars
    /\ UNCHANGED otherVars
    /\ UNCHANGED fnVars
    /\ UNCHANGED mathVars

\* the caller invokes decrypt(ciphertext, private_key) on what encrypt returned
CallDecrypt ==
    /\ pc = "encrypted"
    /\ ct.tag = "ok"
    /\ cin' = ct.val
    /\ dkey' = priv
    /\ out' = DecryptRun(ct.val, priv)
    /\ pc' = "decrypted"
    /\ UNCHANGED <<message, seeds, ct>>
    /\ UNCHANGED keyVars
    /\ UNCHANGED otherVars
    /\ UNCHANGED fnVars
    /\ UNCHANGED mathVars

Next ==
    \/ CallGenerateKeypair
    \/ DrawCandidate
    \/ WitnessRound
    \/ CallEncrypt
    \/ CallDecrypt

Spec == Init /\ [][Next]_vars

\* ------------------------------------------------- the other call sequences
MessagesUpTo(maxlen) == {m \in Messages : Len(m) <= maxlen}

\* the caller invokes encrypt on a message of at most MaxPairMsgLen bytes
CallEncryptShort ==
    /\ pc = "ready"
    /\ \E m \in MessagesUpTo(MaxPairMsgLen) :
          \E sd \in SeedChoices(NumBlocks(m, pub)) :
             /\ message' = m
             /\ seeds' = sd
             /\ ct' = Encrypt(m, pub, sd)
    /\ pc' = "encrypted"
    /\ UNCHANGED <<cin, dkey, out>>
    /\ UNCHANGED keyVars
    /\ UNCHANGED otherVars
    /\ UNCHANGED fnVars
    /\ UNCHANGED mathVars

\* the caller invokes encrypt a second time on the same message and key
CallEncryptAgain ==
    /\ pc = "encrypted"
    /\ ct.tag = "ok"
    /\ \E sd \in SeedChoices(NumBlocks(message, pub)) :
          /\ seeds2' = sd
          /\ ct2' = Encrypt(message, pub, sd)
    /\ pc' = "encrypted_twice"
    /\ UNCHANGED <<first, out2, tamper>>
    /\ UNCHANGED cipherVars
    /\ UNCHANGED keyVars
    /\ UNCHANGED fnVars
    /\ UNCHANGED mathVars

\* the caller decrypts the first ciphertext
CallDecryptFirst ==
    /\ pc = "encrypted_twice"
    /\ cin' = ct.val
    /\ dkey' = priv
    /\ out' = DecryptRun(ct.val, priv)
    /\ pc' = "decrypted_first"
    /\ UNCHANGED <<message, seeds, ct>>
    /\ UNCHANGED keyVars
    /\ UNCHANGED otherVars
    /\ UNCHANGED fnVars
    /\ UNCHANGED mathVars

\* the caller decrypts the second ciphertext
CallDecryptSecond ==
    /\ pc = "decrypted_first"
    /\ ct2.tag = "ok"
    /\ out2' = DecryptRun(ct2.val, priv)
    /\ pc' = "decrypted_both"
    /\ UNCHANGED <<first, seeds2, ct2, tamper>>
    /\ UNCHANGED cipherVars
    /\ UNCHANGED keyVars
    /\ UNCHANGED fnVars
    /\ UNCHANGED mathVars

\* the corruptions of a ciphertext: one bit of one byte flipped, or one byte
\* inverted (corrupted[pos] ^= 0xFF)
Tampers(c) ==
    {[kind |-> "bit", pos |-> i, bit |-> j] :
        i \in 1 .. Len(c), j \in 0 .. (ByteBits - 1)}
    \cup {[kind |-> "byte", pos |-> i, bit |-> 0] : i \in 1 .. Len(c)}

Corrupt(c, t) ==
    [c EXCEPT ![t.pos] =
        IF t.kind = "bit" THEN XorInt(c[t.pos], Pow(2, t.bit))
        ELSE XorInt(c[t.pos], ByteBase - 1)]

\* the caller corrupts the ciphertext and invokes decrypt on it
CallDecryptCorrupted ==
    /\ pc = "encrypted"
    /\ ct.tag = "ok"
    /\ \E t \in Tampers(ct.val) :
          /\ tamper' = t
          /\ cin' = Corrupt(ct.val, t)
          /\ out' = DecryptRun(Corrupt(ct.val, t), priv)
    /\ dkey' = priv
    /\ pc' = "decrypted"
    /\ UNCHANGED <<message, seeds, ct>>
    /\ UNCHANGED <<first, seeds2, ct2, out2>>
    /\ UNCHANGED keyVars
    /\ UNCHANGED fnVars
    /\ UNCHANGED mathVars

\* the caller keeps the keypair returned and invokes generate_keypair again
CallGenerateSecondKeypair ==
    /\ pc = "ready"
    /\ first = NoPair
    /\ first' = <<pub, priv>>
    /\ \E h \in 1 .. MaxHalfBits : bit_size' = 2 * h
    /\ pc' = "gen"
    /\ target' = "p"
    /\ num' = 0
    /\ rounds' = 0
    /\ p' = 0
    /\ q' = 0
    /\ e' = PublicExponent
    /\ pub' = NoKey
    /\ priv' = NoKey
    /\ keygen' = NoResult
    /\ UNCHANGED <<seeds2, ct2, out2, tamper>>
    /\ UNCHANGED cipherVars
    /\ UNCHANGED fnVars
    /\ UNCHANGED mathVars

\* the caller invokes encrypt with the public key of the first keypair
CallEncryptFirstKey ==
    /\ pc = "ready"
    /\ first # NoPair
    /\ \E m \in MessagesUpTo(MaxWrongKeyMsgLen) :
          \E sd \in SeedChoices(NumBlocks(m, first[1])) :
             /\ message' = m
             /\ seeds' = sd
             /\ ct' = Encrypt(m, first[1], sd)
    /\ pc' = "encrypted"
    /\ UNCHANGED <<cin, dkey, out>>
    /\ UNCHANGED keyVars
    /\ UNCHANGED otherVars
    /\ UNCHANGED fnVars
    /\ UNCHANGED mathVars

\* the byte strings a caller hands to decrypt
CipherInputs == UNION {[1 .. len -> 0 .. MaxMsgByte] : len \in 0 .. MaxCtLen}

\* the caller invokes decrypt on a byte string of its own
CallDecryptBytes ==
    /\ pc = "ready"
    /\ \E bytes \in CipherInputs :
          /\ cin' = bytes
          /\ out' = DecryptRun(bytes, priv)
    /\ dkey' = priv
    /\ pc' = "decrypted"
    /\ UNCHANGED <<message, seeds, ct>>
    /\ UNCHANGED keyVars
    /\ UNCHANGED otherVars
    /\ UNCHANGED fnVars
    /\ UNCHANGED mathVars

\* encrypt twice, decrypt both (test_same_message_different_ciphertexts)
NextTwice ==
    \/ CallGenerateKeypair
    \/ DrawCandidate
    \/ WitnessRound
    \/ CallEncryptShort
    \/ CallEncryptAgain
    \/ CallDecryptFirst
    \/ CallDecryptSecond

SpecTwice == Init /\ [][NextTwice]_vars

\* encrypt, corrupt, decrypt (test_corrupted_ciphertext_fails)
NextCorrupt ==
    \/ CallGenerateKeypair
    \/ DrawCandidate
    \/ WitnessRound
    \/ CallEncryptShort
    \/ CallDecryptCorrupted

SpecCorrupt == Init /\ [][NextCorrupt]_vars

\* two keypairs, encrypt with the first, decrypt with the second
\* (test_wrong_key_fails)
NextWrongKey ==
    \/ CallGenerateKeypair
    \/ DrawCandidate
    \/ WitnessRound
    \/ CallGenerateSecondKeypair
    \/ CallEncryptFirstKey
    \/ CallDecrypt

SpecWrongKey == Init /\ [][NextWrongKey]_vars

\* decrypt of an arbitrary byte string
NextDecryptBytes ==
    \/ CallGenerateKeypair
    \/ DrawCandidate
    \/ WitnessRound
    \/ CallDecryptBytes

SpecDecryptBytes == Init /\ [][NextDecryptBytes]_vars

\* generate_keypair alone
NextKeygen ==
    \/ CallGenerateKeypair
    \/ DrawCandidate
    \/ WitnessRound

SpecKeygen == Init /\ [][NextKeygen]_vars

\* the caller invokes generate_keypair(bit_size) at the scale where the public
\* exponent is SmallExponent
CallGenerateKeypairSmallExponent ==
    /\ pc = "start"
    /\ \E h \in 1 .. MaxHalfBits : bit_size' = 2 * h
    /\ pc' = "gen"
    /\ target' = "p"
    /\ e' = SmallExponent
    /\ UNCHANGED <<num, rounds, p, q, pub, priv, keygen>>
    /\ UNCHANGED cipherVars
    /\ UNCHANGED otherVars
    /\ UNCHANGED fnVars
    /\ UNCHANGED mathVars

\* generate_keypair alone, with the small exponent
NextKeygenSmallExponent ==
    \/ CallGenerateKeypairSmallExponent
    \/ DrawCandidate
    \/ WitnessRound

SpecKeygenSmallExponent == Init /\ [][NextKeygenSmallExponent]_vars

\* encrypt, then decrypt the ciphertext as it is or corrupted
NextBlocks ==
    \/ CallGenerateKeypair
    \/ DrawCandidate
    \/ WitnessRound
    \/ CallEncryptShort
    \/ CallDecrypt
    \/ CallDecryptCorrupted

SpecBlocks == Init /\ [][NextBlocks]_vars

\* -------------------------------------- direct calls of the OAEP functions
\* the byte strings of at most maxlen bytes
BytesUpTo(maxlen) == UNION {[1 .. len -> Byte] : len \in 0 .. maxlen}

\* the values of k handed to _oaep_encode
EncodeLengths == (0 .. MaxK) \cup {MaskLimit(HLen) + HLen + 2}

\* a caller invokes _oaep_encode(message, k, label); seed is what os.urandom
\* returns
CallOaepEncode ==
    /\ pc = "start"
    /\ \E m \in BytesUpTo(MaxBlockMsgLen), k \in EncodeLengths,
          label \in BytesUpTo(MaxLabelLen), seed \in [1 .. HLen -> Byte] :
          enc' = [message |-> m, k |-> k, label |-> label, seed |-> seed,
                  res |-> OaepEncode(m, k, label, seed)]
    /\ pc' = "encoded_block"
    /\ UNCHANGED <<dec, mgf, mgf2>>
    /\ UNCHANGED keyVars
    /\ UNCHANGED cipherVars
    /\ UNCHANGED otherVars
    /\ UNCHANGED mathVars

\* the caller invokes _oaep_decode on the block _oaep_encode returned, with
\* the same k and a label of its choice
CallOaepDecode ==
    /\ pc = "encoded_block"
    /\ enc.res.tag = "ok"
    /\ \E label \in BytesUpTo(MaxLabelLen) :
          dec' = [encoded |-> enc.res.val, k |-> enc.k, label |-> label,
                  res |-> OaepDecode(enc.res.val, enc.k, label)]
    /\ pc' = "decoded_block"
    /\ UNCHANGED <<enc, mgf, mgf2>>
    /\ UNCHANGED keyVars
    /\ UNCHANGED cipherVars
    /\ UNCHANGED otherVars
    /\ UNCHANGED mathVars

\* a caller invokes _oaep_decode(encoded, k, label) on a byte string of its own
CallOaepDecodeBytes ==
    /\ pc = "start"
    /\ \E encoded \in BytesUpTo(MaxEncodedLen), k \in 0 .. MaxK,
          label \in BytesUpTo(MaxLabelLen) :
          dec' = [encoded |-> encoded, k |-> k, label |-> label,
                  res |-> OaepDecode(encoded, k, label)]
    /\ pc' = "decoded_bytes"
    /\ UNCHANGED <<enc, mgf, mgf2>>
    /\ UNCHANGED keyVars
    /\ UNCHANGED cipherVars
    /\ UNCHANGED otherVars
    /\ UNCHANGED mathVars

NextOaep ==
    \/ CallOaepEncode
    \/ CallOaepDecode
    \/ CallOaepDecodeBytes

SpecOaep == Init /\ [][NextOaep]_vars

\* ------------------------------------------------- direct calls of _mgf1
\* the lengths handed to _mgf1 with a hash_func of digest size h_len
MaskLengths(h_len) == (0 .. MaxMaskLen) \cup {MaskLimit(h_len) + 1}

\* a caller invokes _mgf1(seed, length, hash_func)
CallMgf1 ==
    /\ pc = "start"
    /\ \E seed \in BytesUpTo(MaxSeedLen), h_len \in 1 .. MaxDigestLen :
          \E length \in MaskLengths(h_len) :
             mgf' = [seed |-> seed, length |-> length, h_len |-> h_len,
                     res |-> Mgf1Call(seed, length, h_len)]
    /\ pc' = "masked"
    /\ UNCHANGED <<enc, dec, mgf2>>
    /\ UNCHANGED keyVars
    /\ UNCHANGED cipherVars
    /\ UNCHANGED otherVars
    /\ UNCHANGED mathVars

\* the caller invokes _mgf1 again with the same seed and hash_func and a
\* length of its choice
CallMgf1Again ==
    /\ pc = "masked"
    /\ \E length \in MaskLengths(mgf.h_len) :
          mgf2' = [seed |-> mgf.seed, length |-> length, h_len |-> mgf.h_len,
                   res |-> Mgf1Call(mgf.seed, length, mgf.h_len)]
    /\ pc' = "masked_twice"
    /\ UNCHANGED <<enc, dec, mgf>>
    /\ UNCHANGED keyVars
    /\ UNCHANGED cipherVars
    /\ UNCHANGED otherVars
    /\ UNCHANGED mathVars

NextMgf1 ==
    \/ CallMgf1
    \/ CallMgf1Again

SpecMgf1 == Init /\ [][NextMgf1]_vars

\* ------------------------------------------------------------- _is_prime
\* the composites the specification names as always reported composite
KnownComposites == {4, 15, 100, 9973 * 2}

\* the arguments n of the direct calls of _is_prime
PrimalityArgs == (-2 .. MaxPrimalityArg) \cup KnownComposites

\* the verdict of _is_prime as the caller sees it
Verdict(b) == IF b THEN "True" ELSE "False"

\* the caller invokes _is_prime(n, k); bytes[i] is what os.urandom(1) returns
\* in round i
CallIsPrime ==
    /\ pc = "start"
    /\ \E n \in PrimalityArgs, k \in 0 .. MaxRoundsArg :
          \E bytes \in RandomBytes(k) :
             isp' = [n |-> n, k |-> k, bytes |-> bytes,
                     res |-> Verdict(IsPrime(n, k, bytes))]
    /\ pc' = "tested"
    /\ UNCHANGED <<gp, eg, mi>>
    /\ UNCHANGED keyVars
    /\ UNCHANGED cipherVars
    /\ UNCHANGED otherVars
    /\ UNCHANGED fnVars

NextIsPrime == CallIsPrime

SpecIsPrime == Init /\ [][NextIsPrime]_vars

\* -------------------------------------------------------- _generate_prime
\* the caller invokes _generate_prime(bit_size); the while loop starts
CallGeneratePrime ==
    /\ pc = "start"
    /\ \E b \in 1 .. MaxPrimeBits :
          gp' = [bit_size |-> b, num |-> 0, bytes |-> <<>>, res |-> 0]
    /\ pc' = "sampling"
    /\ UNCHANGED <<isp, eg, mi>>
    /\ UNCHANGED keyVars
    /\ UNCHANGED cipherVars
    /\ UNCHANGED otherVars
    /\ UNCHANGED fnVars

\* the top of the loop: num is built from the bytes os.urandom(bit_size // 8)
\* returns
SampleCandidate ==
    /\ pc = "sampling"
    /\ \E rnd \in RandomBytes(gp.bit_size \div ByteBits) :
          gp' = [gp EXCEPT !.num = Candidate(gp.bit_size, rnd)]
    /\ pc' = "testing"
    /\ UNCHANGED <<isp, eg, mi>>
    /\ UNCHANGED keyVars
    /\ UNCHANGED cipherVars
    /\ UNCHANGED otherVars
    /\ UNCHANGED fnVars

\* if _is_prime(num): return num, with the default k = 5 and bytes the bytes
\* its rounds draw; otherwise the loop goes round
TestCandidate ==
    /\ pc = "testing"
    /\ \E bytes \in RandomBytes(Rounds) :
          IF IsPrime(gp.num, Rounds, bytes)
          THEN /\ gp' = [gp EXCEPT !.bytes = bytes, !.res = gp.num]
               /\ pc' = "returned"
          ELSE /\ UNCHANGED gp
               /\ pc' = "sampling"
    /\ UNCHANGED <<isp, eg, mi>>
    /\ UNCHANGED keyVars
    /\ UNCHANGED cipherVars
    /\ UNCHANGED otherVars
    /\ UNCHANGED fnVars

NextGeneratePrime ==
    \/ CallGeneratePrime
    \/ SampleCandidate
    \/ TestCandidate

SpecGeneratePrime == Init /\ [][NextGeneratePrime]_vars

\* the candidates _generate_prime can draw for bit sizes up to MaxFairPrimeBits
FairCandidates == {c \in 1 .. Pow(2, MaxFairPrimeBits) : c % 2 = 1}

\* _generate_prime called with bit sizes up to MaxFairPrimeBits
NextFairGeneratePrime ==
    \/ CallGeneratePrime /\ gp'.bit_size <= MaxFairPrimeBits
    \/ SampleCandidate
    \/ TestCandidate

\* the loop always takes its next step, and the random source is fair: a
\* candidate that can be drawn again and again is drawn
FairGeneratePrime ==
    /\ Init
    /\ [][NextFairGeneratePrime]_vars
    /\ WF_vars(TestCandidate)
    /\ \A c \in FairCandidates : SF_vars(SampleCandidate /\ gp'.num = c)

\* ------------------------------------------- _extended_gcd, _mod_inverse
\* the first arguments of the direct calls of _mod_inverse
InverseArgs == (0 .. MaxGcdArg) \cup {PublicExponent}

\* the nested calls _extended_gcd(a, b) makes, itself included: one for each
\* step of Euclid's algorithm
RECURSIVE EuclidDepth(_, _)
EuclidDepth(a, b) == IF a = 0 THEN 1 ELSE 1 + EuclidDepth(b % a, a)

\* a call that nests deeper than the interpreter allows raises RecursionError
\* (generate_keypair calls _mod_inverse(65537, phi): after its first step both
\* arguments are below 65537, which keeps it far from the limit)
TooDeep(a, b) == EuclidDepth(a, b) > RecursionLimit

\* _extended_gcd(a, b) called from the top level
ExtendedGcdCall(a, b) ==
    IF TooDeep(a, b)
    THEN Raise("RecursionError", "maximum recursion depth exceeded")
    ELSE Ok(ExtendedGcd(a, b))

\* _mod_inverse(a, m) called from the top level
ModInverseCall(a, m) ==
    IF TooDeep(a, m)
    THEN Raise("RecursionError", "maximum recursion depth exceeded")
    ELSE ModInverse(a, m)

\* the caller invokes _extended_gcd(a, b)
CallExtendedGcd ==
    /\ pc = "start"
    /\ \E a \in 0 .. MaxGcdArg, b \in 0 .. MaxGcdArg :
          eg' = [a |-> a, b |-> b, res |-> ExtendedGcdCall(a, b)]
    /\ pc' = "divided"
    /\ UNCHANGED <<isp, gp, mi>>
    /\ UNCHANGED keyVars
    /\ UNCHANGED cipherVars
    /\ UNCHANGED otherVars
    /\ UNCHANGED fnVars

\* the caller invokes _mod_inverse(a, m)
CallModInverse ==
    /\ pc = "start"
    /\ \E a \in InverseArgs, m \in 1 .. MaxInverseModulus :
          mi' = [a |-> a, m |-> m, res |-> ModInverseCall(a, m)]
    /\ pc' = "inverted"
    /\ UNCHANGED <<isp, gp, eg>>
    /\ UNCHANGED keyVars
    /\ UNCHANGED cipherVars
    /\ UNCHANGED otherVars
    /\ UNCHANGED fnVars

NextGcd ==
    \/ CallExtendedGcd
    \/ CallModInverse

SpecGcd == Init /\ [][NextGcd]_vars

\* generate_keypair called with bit sizes up to 2 * MaxFairPrimeBits
NextFairKeygen ==
    \/ CallGenerateKeypair /\ bit_size' <= 2 * MaxFairPrimeBits
    \/ DrawCandidate
    \/ WitnessRound

\* generate_keypair always takes its next step, and the random source is
\* fair: a candidate that can be drawn again and again is drawn
FairKeygen ==
    /\ Init
    /\ [][NextFairKeygen]_vars
    /\ WF_vars(DrawCandidate)
    /\ WF_vars(WitnessRound)
    /\ \A c \in FairCandidates :
          SF_vars(DrawCandidate /\ pc' = "witness" /\ num' = c)

\* ------------------------------------------- blocks that are not below n
\* the ciphertext c with its i-th k-byte block, of integer value v, replaced
\* by the k bytes of v + n
ShiftBlock(c, i, n, k) ==
    LET lo == HeaderLen + (i - 1) * k
        v == FromBytes(SubSeq(c, lo + 1, lo + k))
        bytes == Digits(v + n, k)
    IN  [j \in 1 .. Len(c) |-> IF j > lo /\ j <= lo + k THEN bytes[j - lo]
                                ELSE c[j]]

\* the blocks of the ciphertext c whose value plus n still fits k bytes
Shiftable(c, n, k) ==
    {i \in 1 .. FromBytes(Slice(c, 0, HeaderLen)) :
        Fits(FromBytes(SubSeq(c, HeaderLen + (i - 1) * k + 1,
                              HeaderLen + i * k)) + n, k)}

\* the caller adds n to one block of the ciphertext and invokes decrypt on it
CallDecryptShifted ==
    /\ pc = "encrypted"
    /\ ct.tag = "ok"
    /\ \E i \in Shiftable(ct.val, priv[2], ModulusBytes(priv[2])) :
          /\ tamper' = [kind |-> "shift", pos |-> i, bit |-> 0]
          /\ cin' = ShiftBlock(ct.val, i, priv[2], ModulusBytes(priv[2]))
          /\ out' = DecryptRun(ShiftBlock(ct.val, i, priv[2],
                                          ModulusBytes(priv[2])), priv)
    /\ dkey' = priv
    /\ pc' = "decrypted"
    /\ UNCHANGED <<message, seeds, ct>>
    /\ UNCHANGED <<first, seeds2, ct2, out2>>
    /\ UNCHANGED keyVars
    /\ UNCHANGED fnVars
    /\ UNCHANGED mathVars

NextShifted ==
    \/ CallGenerateKeypair
    \/ DrawCandidate
    \/ WitnessRound
    \/ CallEncryptShort
    \/ CallDecryptShifted

SpecShifted == Init /\ [][NextShifted]_vars

\* ----------------------------------------------------------------- claims
\* ceil(a / b) for a >= 0 and b # 0
CeilQuot(a, b) == IF b > 0 THEN (a + b - 1) \div b ELSE -(a \div (-b))

\* the modulus byte length and the block capacity as the claims state them
KOf(n) == CeilQuot(BitLength(n), ByteBits)
CapacityOf(n) == KOf(n) - 2 * HLen - 2

\* C1: round trip. For every keypair generate_keypair returns and every
\* non-empty message, encrypt returns a ciphertext and decrypt of it with the
\* private key returns exactly the message, whatever seeds are drawn.
C1_RoundTrip ==
    /\ (pc = "encrypted" /\ Len(message) > 0) => ct.tag = "ok"
    /\ pc = "decrypted" => out.res = Ok(message)

\* the big-endian value of the 4-byte header of a ciphertext
HeaderValue(c) ==
    ((c[1] * ByteBase + c[2]) * ByteBase + c[3]) * ByteBase + c[4]

\* the i-th k-byte block after the header
BlockOf(c, i, k) == SubSeq(c, HeaderLen + (i - 1) * k + 1, HeaderLen + i * k)

\* the i-th consecutive slice of at most cap bytes of m
ChunkOf(m, i, cap) ==
    LET hi == IF i * cap < Len(m) THEN i * cap ELSE Len(m)
    IN  [j \in 1 .. (hi - (i - 1) * cap) |-> m[(i - 1) * cap + j]]

\* C2: encrypt of the empty message raises ValueError, for every public key,
\* and returns no ciphertext.
C2_EmptyMessageRaises ==
    (pc = "encrypted" /\ Len(message) = 0) =>
        /\ ct.tag = "ValueError"
        /\ ct.why = "Message cannot be empty"
        /\ ct.val = <<>>

C2_Witness ==
    /\ pc = "encrypted"
    /\ message = <<>>
    /\ ct.tag = "ValueError"
    /\ CapacityOf(pub[2]) = 2

\* C3: two calls of encrypt on the same message with the same public key
\* yield two different ciphertexts, and both decrypt to the message.
C3_TwoEncryptionsDiffer ==
    /\ pc \in {"encrypted_twice", "decrypted_first", "decrypted_both"} =>
          /\ ct2.tag = "ok"
          /\ ct.val # ct2.val
    /\ pc \in {"decrypted_first", "decrypted_both"} => out.res = Ok(message)
    /\ pc = "decrypted_both" => out2.res = Ok(message)

\* decrypt raised the named malformed-ciphertext error before any block
RejectedAs(why) ==
    /\ out.res.tag = "ValueError"
    /\ out.res.why = why
    /\ out.tried = 0
    /\ out.decoded = <<>>

\* C4: decrypt rejects a ciphertext shorter than 4 bytes, and one whose length
\* after the header differs from block_count * k, before decrypting any block.
C4_MalformedRejected ==
    pc = "decrypted" =>
        /\ Len(cin) < 4 => RejectedAs("Invalid ciphertext: too short")
        /\ (Len(cin) >= 4 /\ Len(cin) - 4 # HeaderValue(cin) * KOf(dkey[2])) =>
              RejectedAs("Invalid ciphertext: incorrect length")

C4_Witness ==
    /\ pc = "decrypted"
    /\ Len(cin) = 9
    /\ HeaderValue(cin) = 1
    /\ KOf(dkey[2]) = 6
    /\ RejectedAs("Invalid ciphertext: incorrect length")

\* C5: wire format. For a non-empty message encrypt returns the 4-byte
\* big-endian block count ceil(len(M) / (k-2h-2)) followed by that many k-byte
\* blocks, block i carrying the i-th consecutive slice of at most k-2h-2
\* bytes of M.
C5_WireFormat ==
    (pc = "encrypted" /\ Len(message) > 0 /\ ct.tag = "ok") =>
        LET n == pub[2]
            k == KOf(n)
            cap == CapacityOf(n)
            count == HeaderValue(ct.val)
        IN  /\ Len(ct.val) >= 4
            /\ cap # 0
            /\ count = CeilQuot(Len(message), cap)
            /\ Len(ct.val) = 4 + count * k
            /\ \A i \in 1 .. count :
                  BlockOf(ct.val, i, k) =
                      Digits(EncryptBlock(ChunkOf(message, i, cap), pub[1], n, k,
                                          seeds[i]).val, k)

C8_KeypairShape ==
    keygen.tag = "ok" =>
        /\ Len(keygen.val) = 2
        /\ Len(keygen.val[1]) = 2
        /\ Len(keygen.val[2]) = 2
        /\ keygen.val[1][1] = 65537
        /\ keygen.val[1][2] = keygen.val[2][2]
        /\ pub = keygen.val[1]
        /\ priv = keygen.val[2]

C8_Witness ==
    /\ keygen.tag = "ok"
    /\ bit_size = 10
    /\ pub[1] = 65537
    /\ pub[2] = priv[2]

\* C9: every keypair returned has n = p*q for two distinct p # q that both
\* passed the primality test, and 0 <= d < phi with d*e = 1 (mod phi),
\* phi = (p-1)(q-1).
C9_KeypairArithmetic ==
    keygen.tag = "ok" =>
        LET n == keygen.val[1][2]
            e_pub == keygen.val[1][1]
            d == keygen.val[2][1]
            phi == (p - 1) * (q - 1)
        IN  /\ n = p * q
            /\ p # q
            /\ \E b \in Byte : IsPrime(p, Rounds, [i \in 1 .. Rounds |-> b])
            /\ \E b \in Byte : IsPrime(q, Rounds, [i \in 1 .. Rounds |-> b])
            /\ 0 <= d
            /\ d < phi
            /\ (d * e_pub) % phi = 1

C9_Witness ==
    /\ keygen.tag = "ok"
    /\ p = 61
    /\ q = 37
    /\ (priv[1] * 65537) % 2160 = 1

\* C10: for even b the primes have exactly b/2 bits each and the modulus has
\* bit length b-1 or b.
C10_ModulusBitLength ==
    keygen.tag = "ok" =>
        LET n == keygen.val[1][2]
            h == bit_size \div 2
        IN  /\ bit_size % 2 = 0
            /\ Pow(2, h - 1) <= p /\ p < Pow(2, h)
            /\ Pow(2, h - 1) <= q /\ q < Pow(2, h)
            /\ Pow(2, bit_size - 2) <= n /\ n < Pow(2, bit_size)

C10_Witness ==
    /\ keygen.tag = "ok"
    /\ bit_size = 12
    /\ pub[2] < Pow(2, 11)

\* the greatest common divisor, by Euclid's algorithm
RECURSIVE Gcd(_, _)
Gcd(a, b) == IF b = 0 THEN a ELSE Gcd(b, a % b)

\* C11: when gcd(e, phi) # 1 for the primes generate_keypair has settled on
\* (q drawn and different from p), generate_keypair has raised the
\* modular-inverse error and returned no key; and after the error it takes no
\* further step: it draws no new prime.
C11_NoInverseRaises ==
    /\ [](  (q # 0 /\ q # p /\ Gcd(e, (p - 1) * (q - 1)) # 1) =>
               /\ pc = "failed"
               /\ keygen = Raise("ValueError", "Modular inverse does not exist")
               /\ pub = NoKey
               /\ priv = NoKey)
    /\ [][pc # "failed"]_vars

C11_Witness ==
    /\ pc = "failed"
    /\ e = SmallExponent
    /\ p = 11
    /\ q = 13
    /\ keygen.tag = "ValueError"
    /\ pub = NoKey

\* what the RSA step and the OAEP decoding of block i of ciphertext c yield
\* under the private key key
BlockResult(c, i, key) ==
    DecryptBlock(BlockOf(c, i, KOf(key[2])), key[1], key[2], KOf(key[2]))

\* the chunks of blocks i .. cnt of c one after the other
RECURSIVE ChunksFrom(_, _, _, _)
ChunksFrom(c, i, cnt, key) ==
    IF i > cnt THEN <<>>
    ELSE BlockResult(c, i, key).val \o ChunksFrom(c, i + 1, cnt, key)

\* C12: no partial results. For a well-framed ciphertext, when the decoding
\* of some block fails decrypt raises the error of the first such block and
\* returns no bytes, whatever chunks were decoded before it; and whenever
\* decrypt returns, every one of the block_count blocks was decoded and the
\* result is the concatenation of all chunks in block order.
C12_NoPartialResults ==
    (pc = "decrypted" /\ Len(cin) >= 4
        /\ Len(cin) - 4 = HeaderValue(cin) * KOf(dkey[2])) =>
        LET cnt == HeaderValue(cin)
            failing == {i \in 1 .. cnt : BlockResult(cin, i, dkey).tag # "ok"}
        IN  /\ failing # {} =>
                  /\ out.res.tag # "ok"
                  /\ out.res.val = <<>>
                  /\ \E i \in failing :
                        /\ \A j \in failing : i <= j
                        /\ out.res = BlockResult(cin, i, dkey)
                        /\ out.tried = i
                        /\ Len(out.decoded) = i - 1
            /\ out.res.tag = "ok" =>
                  /\ failing = {}
                  /\ out.tried = cnt
                  /\ Len(out.decoded) = cnt
                  /\ out.res.val = ChunksFrom(cin, 1, cnt, dkey)

\* a two-block ciphertext whose first block decodes and whose second does not
C12_Witness ==
    /\ pc = "decrypted"
    /\ HeaderValue(cin) = 2
    /\ Len(cin) = 4 + 2 * KOf(dkey[2])
    /\ out.tried = 2
    /\ Len(out.decoded) = 1
    /\ Len(out.decoded[1]) = 1
    /\ out.res.tag = "ValueError"
    /\ out.res.val = <<>>

\* C13: OAEP round trip at block level. For every k >= 2h+2, every label,
\* every message of at most k-2h-2 bytes (the empty one included) and every
\* seed, _oaep_encode returns a block and _oaep_decode of it with the same k
\* and label returns exactly the message.
C13_RoundTripEveryK ==
    /\ (pc = "encoded_block" /\ enc.k >= 2 * HLen + 2
           /\ Len(enc.message) <= enc.k - 2 * HLen - 2) =>
          enc.res.tag = "ok"
    /\ (pc = "decoded_block" /\ dec.label = enc.label) =>
          /\ dec.encoded = enc.res.val
          /\ dec.k = enc.k
          /\ dec.res = Ok(enc.message)

\* C13 as amended: the round trip holds for every k >= 2h+2 whose data block
\* is not longer than the largest mask, k - h - 1 <= 2^32 * h; for a larger k
\* _oaep_encode raises ValueError (mask too long) and there is no block to
\* decode.
C13_BlockRoundTrip ==
    /\ (pc = "encoded_block" /\ enc.k >= 2 * HLen + 2
           /\ Len(enc.message) <= enc.k - 2 * HLen - 2) =>
          IF enc.k - HLen - 1 <= MaskLimit(HLen)
          THEN enc.res.tag = "ok"
          ELSE enc.res = Raise("ValueError", "Mask too long")
    /\ (pc = "decoded_block" /\ dec.label = enc.label) =>
          /\ dec.encoded = enc.res.val
          /\ dec.k = enc.k
          /\ dec.res = Ok(enc.message)

\* the empty message in the smallest block, encoded and decoded
C13_Witness ==
    /\ pc = "decoded_block"
    /\ dec.label = enc.label
    /\ enc.k = 2 * HLen + 2
    /\ enc.message = <<>>
    /\ dec.res = Ok(<<>>)

\* C14: whenever _oaep_encode(M, k, label) returns, the block has exactly k
\* bytes, its first byte is 0x00, bytes [1, 1+h) are the masked seed and bytes
\* [1+h, k) the masked data block, which unmasked with the mask of the seed is
\* lHash || k-len(M)-2h-2 zero bytes || 0x01 || M.
C14_EncodedLayout ==
    (pc \in {"encoded_block", "decoded_block"} /\ enc.res.tag = "ok") =>
        LET em == enc.res.val
            k == enc.k
            masked_seed == SubSeq(em, 2, 1 + HLen)
            masked_db == SubSeq(em, 2 + HLen, k)
            ps_len == k - Len(enc.message) - 2 * HLen - 2
        IN  /\ Len(em) = k
            /\ em[1] = 0
            /\ ps_len >= 0
            /\ Len(masked_db) = k - HLen - 1
            /\ masked_seed = XorBytes(enc.seed, Mgf1(masked_db, HLen))
            /\ XorBytes(masked_db, Mgf1(enc.seed, k - HLen - 1))
                   = Hash(enc.label) \o [i \in 1 .. ps_len |-> 0] \o <<1>>
                        \o enc.message

\* a block with two bytes of padding
C14_Witness ==
    /\ pc = "encoded_block"
    /\ enc.res.tag = "ok"
    /\ enc.k - Len(enc.message) - 2 * HLen - 2 = 2
    /\ Len(enc.message) = 1
    /\ Len(enc.res.val) = enc.k

\* C15: _oaep_encode(M, k) raises exactly when len(M) > k-2h-2 and otherwise
\* returns a block; so it raises for every message when k < 2h+2.
C15_RaisesExactlyWhenTooLong ==
    pc = "encoded_block" =>
        /\ enc.res.tag # "ok" <=> Len(enc.message) > enc.k - 2 * HLen - 2
        /\ enc.k < 2 * HLen + 2 => enc.res.tag = "ValueError"

\* C15 as amended: _oaep_encode raises ValueError exactly when
\* len(M) > k-2h-2 (message too long) or k-h-1 > 2^32 * h (mask too long), the
\* first test coming first, and otherwise returns a block; it raises for
\* every message, the empty one too, when k < 2h+2.
C15_EncodeRaises ==
    pc = "encoded_block" =>
        /\ Len(enc.message) > enc.k - 2 * HLen - 2 =>
              enc.res = Raise("ValueError", "Message too long for OAEP encoding")
        /\ (Len(enc.message) <= enc.k - 2 * HLen - 2
               /\ enc.k - HLen - 1 > MaskLimit(HLen)) =>
              enc.res = Raise("ValueError", "Mask too long")
        /\ (Len(enc.message) <= enc.k - 2 * HLen - 2
               /\ enc.k - HLen - 1 <= MaskLimit(HLen)) =>
              /\ enc.res.tag = "ok"
              /\ Len(enc.res.val) = enc.k
        /\ enc.k < 2 * HLen + 2 => enc.res.tag = "ValueError"

\* the empty message refused for a k one below 2h+2
C15_Witness ==
    /\ pc = "encoded_block"
    /\ enc.k = 2 * HLen + 1
    /\ enc.message = <<>>
    /\ enc.res = Raise("ValueError", "Message too long for OAEP encoding")

\* C16: _oaep_decode(encoded, k) raises the decoding error of its length test,
\* the first statement it executes and so before any unmasking, whenever
\* len(encoded) # k or k < 2h+2.
C16_BadLengthRejected ==
    (pc \in {"decoded_bytes", "decoded_block"}
        /\ (Len(dec.encoded) # dec.k \/ dec.k < 2 * HLen + 2)) =>
        dec.res = Raise("ValueError",
                        "Decoding error: invalid encoded message length")

\* a block of k bytes refused because k is one below 2h+2
C16_Witness ==
    /\ pc = "decoded_bytes"
    /\ dec.k = 2 * HLen + 1
    /\ Len(dec.encoded) = dec.k
    /\ dec.res.why = "Decoding error: invalid encoded message length"

\* the data block of an encoded block of k bytes, unmasked: the seed is the
\* masked seed XOR MGF1(maskedDB, h), DB is maskedDB XOR MGF1(seed, k-h-1)
UnmaskedDb(encoded, k) ==
    LET masked_seed == SubSeq(encoded, 2, 1 + HLen)
        masked_db == SubSeq(encoded, 2 + HLen, Len(encoded))
        seed == XorBytes(masked_seed, Mgf1(masked_db, HLen))
    IN  XorBytes(masked_db, Mgf1(seed, k - HLen - 1))

\* the block handed to _oaep_decode passes its length test
WellSized == Len(dec.encoded) = dec.k /\ dec.k >= 2 * HLen + 2

\* C17: _oaep_decode raises the label-hash decoding error whenever the first
\* h bytes of the unmasked data block differ from hash(label); so a block
\* encoded under a label L1 does not decode under a label L2 with
\* hash(L2) # hash(L1).
C17_LabelMismatchRejected ==
    /\ (pc \in {"decoded_bytes", "decoded_block"} /\ WellSized
           /\ SubSeq(UnmaskedDb(dec.encoded, dec.k), 1, HLen) # Hash(dec.label)) =>
          dec.res = Raise("ValueError", "Decoding error: label hash mismatch")
    /\ (pc = "decoded_block" /\ Hash(dec.label) # Hash(enc.label)) =>
          dec.res = Raise("ValueError", "Decoding error: label hash mismatch")

\* a block encoded under the empty label, decoded under a label with another
\* hash
C17_Witness ==
    /\ pc = "decoded_block"
    /\ enc.label = <<>>
    /\ Len(dec.label) = 1
    /\ Hash(dec.label) # Hash(enc.label)
    /\ dec.res.why = "Decoding error: label hash mismatch"

\* the bytes of the unmasked data block after the label hash
AfterLabelHash(encoded, k) ==
    LET db == UnmaskedDb(encoded, k)
    IN  SubSeq(db, HLen + 1, Len(db))

\* the 1-based position of the first non-zero byte of s, 0 when all are zero
FirstNonZero(s) ==
    LET nz == {i \in 1 .. Len(s) : s[i] # 0}
    IN  IF nz = {} THEN 0 ELSE CHOOSE i \in nz : \A j \in nz : i <= j

\* C18: padding validation of _oaep_decode, for a well-sized block whose label
\* hash matches. Scanning the unmasked data block from offset h, a first
\* non-zero byte other than 0x01 raises a decoding error, a block with only
\* zero bytes there raises a decoding error, and on success the message
\* returned is exactly the bytes after the first 0x01.
C18_PaddingValidation ==
    (pc \in {"decoded_bytes", "decoded_block"} /\ WellSized
        /\ SubSeq(UnmaskedDb(dec.encoded, dec.k), 1, HLen) = Hash(dec.label)) =>
        LET rest == AfterLabelHash(dec.encoded, dec.k)
            at == FirstNonZero(rest)
        IN  /\ (at # 0 /\ rest[at] # 1) =>
                  dec.res = Raise("ValueError", "Decoding error: invalid padding")
            /\ at = 0 =>
                  dec.res = Raise("ValueError",
                                  "Decoding error: no 0x01 separator found")
            /\ dec.res.tag = "ok" =>
                  /\ at # 0
                  /\ rest[at] = 1
                  /\ dec.res.val = SubSeq(rest, at + 1, Len(rest))
            /\ (at # 0 /\ rest[at] = 1 /\ dec.encoded[1] = 0) =>
                  dec.res.tag = "ok"

\* a byte string whose padding holds a byte other than 0x00 before any 0x01
C18_Witness ==
    /\ pc = "decoded_bytes"
    /\ WellSized
    /\ dec.k = 2 * HLen + 3
    /\ AfterLabelHash(dec.encoded, dec.k)[1] = 0
    /\ AfterLabelHash(dec.encoded, dec.k)[2] > 1
    /\ dec.res = Raise("ValueError", "Decoding error: invalid padding")

\* the label hash of the unmasked data block differs from the hash of the
\* label handed to _oaep_decode
LabelBad ==
    SubSeq(UnmaskedDb(dec.encoded, dec.k), 1, HLen) # Hash(dec.label)

\* the padding of the unmasked data block is invalid: no non-zero byte after
\* the label hash, or a first non-zero byte other than 0x01
PaddingBad ==
    LET rest == AfterLabelHash(dec.encoded, dec.k)
        at == FirstNonZero(rest)
    IN  at = 0 \/ rest[at] # 1

\* C19: order of the checks of _oaep_decode: length first, then label hash,
\* then padding and separator, the leading byte last. A well-sized block with
\* a non-zero leading byte always raises, and when its label hash or its
\* padding is wrong too the error is that earlier one.
C19_CheckOrder ==
    pc \in {"decoded_bytes", "decoded_block"} =>
        /\ ~WellSized =>
              dec.res.why = "Decoding error: invalid encoded message length"
        /\ (WellSized /\ LabelBad) =>
              dec.res.why = "Decoding error: label hash mismatch"
        /\ (WellSized /\ ~LabelBad /\ PaddingBad) =>
              dec.res.why \in {"Decoding error: invalid padding",
                               "Decoding error: no 0x01 separator found"}
        /\ (WellSized /\ ~LabelBad /\ ~PaddingBad /\ dec.encoded[1] # 0) =>
              dec.res.why = "Decoding error: invalid first byte"
        /\ (WellSized /\ dec.encoded[1] # 0) => dec.res.tag = "ValueError"
        /\ (WellSized /\ ~LabelBad /\ ~PaddingBad /\ dec.encoded[1] = 0) =>
              dec.res.tag = "ok"

\* a block with a non-zero leading byte and invalid padding: the padding
\* error is the one raised
C19_Witness ==
    /\ pc = "decoded_bytes"
    /\ WellSized
    /\ dec.encoded[1] # 0
    /\ ~LabelBad
    /\ PaddingBad
    /\ dec.res = Raise("ValueError", "Decoding error: invalid padding")

\* the counter c as 4 bytes, big-endian
CounterBytes(c) ==
    <<(c \div (ByteBase * ByteBase * ByteBase)) % ByteBase,
      (c \div (ByteBase * ByteBase)) % ByteBase,
      (c \div ByteBase) % ByteBase,
      c % ByteBase>>

\* hash(seed || c) || hash(seed || c+1) || ... || hash(seed || n-1)
RECURSIVE DigestStream(_, _, _, _)
DigestStream(seed, h_len, c, n) ==
    IF c >= n THEN <<>>
    ELSE HashWith(seed \o CounterBytes(c), h_len)
             \o DigestStream(seed, h_len, c + 1, n)

\* what the claim says of one call: it returned exactly length bytes, the
\* first length bytes of the digest stream
ReturnedMask(call) ==
    /\ call.res.tag = "ok"
    /\ Len(call.res.val) = call.length
    /\ call.res.val =
          SubSeq(DigestStream(call.seed, call.h_len, 0, call.length),
                 1, call.length)

\* s is a prefix of t
IsPrefix(s, t) == Len(s) <= Len(t) /\ s = SubSeq(t, 1, Len(s))

\* C20: _mgf1(seed, L) is a function of (seed, L) that returns exactly L
\* bytes, the first L bytes of hash(seed||0) || hash(seed||1) || ... with the
\* counter as 4 bytes big-endian; so _mgf1(seed, L1) is a prefix of
\* _mgf1(seed, L2) whenever L1 <= L2.
C20_AlwaysReturnsLBytes ==
    /\ pc \in {"masked", "masked_twice"} => ReturnedMask(mgf)
    /\ pc = "masked_twice" =>
          /\ ReturnedMask(mgf2)
          /\ mgf.length = mgf2.length => mgf.res = mgf2.res
          /\ mgf.length <= mgf2.length => IsPrefix(mgf.res.val, mgf2.res.val)

\* C20 as amended: for L <= 2^32 * h, _mgf1(seed, L) returns exactly L bytes,
\* the first L bytes of the digest stream, the same on every call, and
\* _mgf1(seed, L1) is a prefix of _mgf1(seed, L2) whenever L1 <= L2 <=
\* 2^32 * h; for L > 2^32 * h it raises ValueError (mask too long).
C20_Mgf1Mask ==
    LET Settled(call) ==
            IF call.length <= MaskLimit(call.h_len)
            THEN ReturnedMask(call)
            ELSE call.res = Raise("ValueError", "Mask too long")
    IN  /\ pc \in {"masked", "masked_twice"} => Settled(mgf)
        /\ pc = "masked_twice" =>
              /\ Settled(mgf2)
              /\ mgf.length = mgf2.length => mgf.res = mgf2.res
              /\ (mgf.length <= mgf2.length
                     /\ mgf2.length <= MaskLimit(mgf.h_len)) =>
                    IsPrefix(mgf.res.val, mgf2.res.val)

\* two masks of one seed under a 2-byte digest, the shorter one ending in the
\* middle of a digest
C20_Witness ==
    /\ pc = "masked_twice"
    /\ mgf.h_len = 2
    /\ mgf.length = 3
    /\ mgf2.length = 5
    /\ Len(mgf.res.val) = 3
    /\ Len(mgf2.res.val) = 5
    /\ IsPrefix(mgf.res.val, mgf2.res.val)

\* n is a prime number, by trial division
IsPrimeNumber(n) == n >= 2 /\ \A f \in 2 .. n - 1 : n % f # 0

\* C21: _is_prime never rejects a prime: whatever the round count and the
\* bytes drawn, a prime n (2 and 3 included) is reported True, so a verdict
\* False for n >= 2 means that n is composite
C21_PrimesAlwaysAccepted ==
    pc = "tested" =>
        /\ IsPrimeNumber(isp.n) => isp.res = "True"
        /\ (isp.res = "False" /\ isp.n >= 2) => ~IsPrimeNumber(isp.n)

C21_Witness ==
    /\ pc = "tested"
    /\ IsPrimeNumber(isp.n)
    /\ isp.n > 100
    /\ isp.k = MaxRoundsArg
    /\ isp.res = "True"

\* a is a Miller-Rabin witness of the compositeness of the odd number n:
\* with n - 1 = 2^s * t and t odd, a^t is not 1 and no a^(2^j * t), j < s,
\* is n - 1 (modulo n)
IsWitness(n, a) ==
    LET s == CHOOSE s \in 1 .. BitLength(n) :
                 (n - 1) % Pow(2, s) = 0 /\ ((n - 1) \div Pow(2, s)) % 2 = 1
        t == (n - 1) \div Pow(2, s)
    IN  /\ ModExp(a, t, n) # 1
        /\ \A j \in 0 .. s - 1 : ModExp(a, Pow(2, j) * t, n) # n - 1

\* the bases the rounds of the recorded _is_prime call draw
DrawnBases == {WitnessBase(isp.n, isp.bytes[i]) : i \in 1 .. isp.k}

\* C22: _is_prime reports False for every n < 2 and every even n > 2 on
\* every run, and for an odd composite n on every run in which one of the
\* drawn bases is a Miller-Rabin witness; 4, 15, 100 and 9973*2 are reported
\* False whatever bases are drawn (every base of [2, 13] is a witness of 15)
C22_CompositesRejected ==
    pc = "tested" =>
        /\ isp.n < 2 => isp.res = "False"
        /\ (isp.n > 2 /\ isp.n % 2 = 0) => isp.res = "False"
        /\ (/\ isp.n >= 5
            /\ isp.n % 2 = 1
            /\ ~IsPrimeNumber(isp.n)
            /\ \E a \in DrawnBases : IsWitness(isp.n, a)) => isp.res = "False"
        /\ (isp.n \in {4, 100, 9973 * 2}) => isp.res = "False"
        /\ (isp.n = 15 /\ isp.k >= 1) =>
               /\ isp.res = "False"
               /\ \A a \in 2 .. 13 : IsWitness(15, a)

\* an odd composite whose first base is a strong liar and whose second base
\* is a witness is rejected
C22_Witness ==
    /\ pc = "tested"
    /\ isp.n >= 5
    /\ isp.n % 2 = 1
    /\ ~IsPrimeNumber(isp.n)
    /\ isp.k >= 2
    /\ ~IsWitness(isp.n, WitnessBase(isp.n, isp.bytes[1]))
    /\ IsWitness(isp.n, WitnessBase(isp.n, isp.bytes[2]))
    /\ isp.res = "False"

\* C23: in every round for an odd n >= 5 the base is drawn from the whole
\* interval [2, n-2]: every drawn base lies in it, and every value of it is
\* a possible draw
C23_BaseFromWholeInterval ==
    (pc = "tested" /\ isp.n >= 5 /\ isp.n % 2 = 1) =>
        /\ DrawnBases \subseteq 2 .. isp.n - 2
        /\ PossibleBases(isp.n) = 2 .. isp.n - 2

\* C24: whenever _generate_prime(b) returns, the value has bit length
\* exactly b (bit b-1 set, no higher bit set), is odd, and passed _is_prime
\* with the default 5 rounds; also when b is not a multiple of the byte size
C24_ReturnedPrimeShape ==
    pc = "returned" =>
        /\ gp.res = gp.num
        /\ BitLength(gp.res) = gp.bit_size
        /\ (gp.res \div Pow(2, gp.bit_size - 1)) % 2 = 1
        /\ gp.res < Pow(2, gp.bit_size)
        /\ gp.res % 2 = 1
        /\ Len(gp.bytes) = 5
        /\ IsPrime(gp.res, 5, gp.bytes)

C24_Witness ==
    /\ pc = "returned"
    /\ gp.bit_size % ByteBits # 0
    /\ gp.bit_size >= 5
    /\ gp.res > Pow(2, gp.bit_size - 1) + 1

\* C25: with a fair random source the retry-until-prime loop of
\* _generate_prime(b) eventually returns, for every bit length b it is
\* called with
C25_GeneratePrimeReturns == (pc = "sampling") ~> (pc = "returned")

\* the greatest common divisor of a and b, from the definition
GreatestCommonDivisor(a, b) ==
    IF a = 0 /\ b = 0 THEN 0
    ELSE CHOOSE g \in 1 .. (a + b) :
            /\ a % g = 0 /\ b % g = 0
            /\ \A f \in 1 .. (a + b) : (a % f = 0 /\ b % f = 0) => f <= g

\* the residues r of [0, m-1] with a * r = 1 (mod m)
InversesOf(a, m) == {r \in 0 .. m - 1 : (a * r) % m = 1}

\* C26: _extended_gcd(a, b) returns (g, x, y) with g = gcd(a, b) and
\* a*x + b*y = g for all a, b >= 0; for m > 1, _mod_inverse(a, m) returns
\* the one r of [0, m-1] with a*r = 1 (mod m) when gcd(a, m) = 1, also when
\* a > m, and raises ValueError exactly when gcd(a, m) # 1
C26_GcdAndInverse ==
    /\ pc = "divided" =>
          /\ eg.res.tag = "ok"
          /\ eg.res.val[1] = GreatestCommonDivisor(eg.a, eg.b)
          /\ eg.a * eg.res.val[2] + eg.b * eg.res.val[3] = eg.res.val[1]
    /\ (pc = "inverted" /\ mi.m > 1) =>
          /\ GreatestCommonDivisor(mi.a, mi.m) = 1 =>
                /\ mi.res.tag = "ok"
                /\ InversesOf(mi.a, mi.m) = {mi.res.val}
          /\ mi.res.tag = "ValueError" <=> GreatestCommonDivisor(mi.a, mi.m) # 1
          /\ mi.res.tag \in {"ok", "ValueError"}

\* C27: for every public key and every non-empty message, encrypt raises an
\* error or returns a ciphertext with a block count of at least 1 whose
\* blocks carry the whole message; it never returns the header alone, also
\* when the modulus is too small for OAEP (k <= 2h+2)
C27_NeverHeaderOnly ==
    (pc = "encrypted" /\ Len(message) > 0 /\ ct.tag = "ok") =>
        /\ HeaderValue(ct.val) >= 1
        /\ Len(ct.val) > HeaderLen
        /\ HeaderValue(ct.val) * CapacityOf(pub[2]) >= Len(message)

\* the integer of the i-th block encrypt encodes: the OAEP encoding of the
\* i-th chunk with the i-th seed drawn
EncodedValue(i) ==
    FromBytes(OaepEncode(ChunkOf(message, i, CapacityOf(pub[2])),
                         KOf(pub[2]), <<>>, seeds[i]).val)

\* the integers decrypt computes from the blocks of its input: c^d mod n
DecryptedValues ==
    {ModExp(FromBytes(BlockOf(cin, i, KOf(dkey[2]))), dkey[1], dkey[2]) :
        i \in 1 .. out.tried}

\* C28: the range invariant of the RSA step. With k = ceil(bit_length(n)/8),
\* the integer m of every block _oaep_encode returns satisfies 0 <= m < n
\* (its leading byte is 0), and every value converted back to k bytes, in
\* encrypt (m^e mod n) and in decrypt (c^d mod n), is below 256^k: the
\* conversions never raise OverflowError
C28_RangeInvariant ==
    /\ pc = "start" =>
          \A n \in 1 .. Pow(2, 2 * MaxHalfBits) :
             /\ Pow(ByteBase, KOf(n) - 1) <= n
             /\ n < Pow(ByteBase, KOf(n))
    /\ (pc \in {"encrypted", "decrypted"} /\ ct.tag = "ok") =>
          \A i \in 1 .. HeaderValue(ct.val) :
             /\ EncodedValue(i) >= 0
             /\ EncodedValue(i) < pub[2]
             /\ ModExp(EncodedValue(i), pub[1], pub[2])
                    < Pow(ByteBase, KOf(pub[2]))
    /\ pc \in {"encrypted", "decrypted"} => ct.tag # "OverflowError"
    /\ pc = "decrypted" =>
          /\ out.res.tag # "OverflowError"
          /\ \A m \in DecryptedValues : m >= 0 /\ m < Pow(ByteBase, KOf(dkey[2]))

\* decrypt has run on a corrupted block whose integer is not below n
C28_Witness ==
    /\ pc = "decrypted"
    /\ tamper.kind # "none"
    /\ out.tried >= 1
    /\ \E i \in 1 .. out.tried : FromBytes(BlockOf(cin, i, KOf(dkey[2]))) >= dkey[2]
    /\ HeaderValue(ct.val) >= 1
    /\ EncodedValue(1) > 0

\* C29: with a fair random source generate_keypair(bit_size) eventually
\* returns a keypair or raises, for every even bit_size >= 4: both prime
\* searches end and so does the loop that draws q again while p = q
C29_KeygenReturns ==
    (pc = "gen" /\ bit_size >= 4) ~> (pc \in {"ready", "failed"})

\* C30: decrypt accepts only blocks whose integer c is below n: a block of
\* value c >= n is rejected with an error, so a valid ciphertext with one
\* block c replaced by c + n (still k bytes) never decrypts to the plaintext
\* of the original
C30_NonCanonicalBlockRejected ==
    (pc = "decrypted" /\ tamper.kind = "shift") =>
        /\ out.res.tag # "ok"
        /\ out.res # Ok(message)
====
